---- MODULE Spec2Model ----
(***************************************************************************)
(* Training registration: the domain function createTraining, the Zod      *)
(* schema TrainingSchema it validates against, the identifier generator    *)
(* createTrainingId, the application handler createTrainingHandler, the     *)
(* in-memory repository and the status transitions of the entity lifecycle. *)
(*                                                                         *)
(* Conventions of the model                                                *)
(*  - A Date is [time |-> its epoch value]; InvalidDate is the Date whose  *)
(*    time value is NaN.                                                   *)
(*  - A string is [ch, len]: the character ch repeated len times, as the   *)
(*    tests build them with 'a'.repeat(n); its length is the JavaScript    *)
(*    .length (UTF-16 code units) that Zod's min/max compare.              *)
(*  - An identifier is the sequence of its 36 characters.                  *)
(*  - Messages are ASCII names of the message literals of the source.      *)
(*  - The repository ships two texts of the module domain/functions: the    *)
(*    file functions.ts and the unnamed part_003. functionsModule says      *)
(*    which of the two '../domain/functions' resolves to.                  *)
(*  - The repository holds no publish, complete or cancel; they follow the  *)
(*    design document and validate with the TrainingSchema of types.ts.     *)
(***************************************************************************)
EXTENDS Integers, Sequences, FiniteSets, TLC

VARIABLES functionsModule, clock, data, result, issued, trainings, task, handled,
          repository, call, saved, entity

vars == <<functionsModule, clock, data, result, issued, trainings, task, handled,
          repository, call, saved, entity>>

\* What the actions of one specification leave alone of the others' state
direct == <<call, saved, entity>>

(***************************************************************************)
(* Bounds of the model                                                     *)
(***************************************************************************)
MaxTime == 1
MaxIssued == 2
MaxHandled == 2
MaxSaved == 3

(***************************************************************************)
(* Program constants (TrainingSchema)                                      *)
(***************************************************************************)
TitleMin == 1
TitleMax == 100
DescriptionMin == 1
DescriptionMax == 1000
LocationMin == 1
LocationMax == 100
CapacityMin == 1
CapacityMax == 1000

(***************************************************************************)
(* Message literals                                                        *)
(***************************************************************************)
MsgTitleRequired == "title: required"
MsgTitleTooLong == "title: at most 100 characters"
MsgDescriptionRequired == "description: required"
MsgDescriptionTooLong == "description: at most 1000 characters"
MsgLocationRequired == "location: required"
MsgLocationTooLong == "location: at most 100 characters"
MsgCapacityTooLow == "capacity: at least 1"
MsgCapacityTooHigh == "capacity: at most 1000"
MsgPastDate == "dateTime: a past date cannot be given"
MsgInvalidTraining == "Invalid training"
\* Zod's default messages, for the rules that carry no message of their own
MsgInvalidUuid == "Invalid uuid"
MsgInvalidDate == "Invalid date"
MsgNonNegative == "Number must be greater than or equal to 0"
MsgInvalidDiscriminator == "Invalid discriminator value"
MsgRequired == "Required"

(***************************************************************************)
(* Values                                                                  *)
(***************************************************************************)
Date(t) == [time |-> t]
InvalidDate == [invalid |-> TRUE]
NoData == [given |-> FALSE]
NoResult == [called |-> FALSE]
NoTask == [pending |-> FALSE]
NoCall == [made |-> FALSE]
NoEntity == [held |-> FALSE]

\* The repository the handler is given: the in-memory one, or another
\* implementation of TrainingRepository whose save returns left(error)
InMemoryTrainingRepository == [kind |-> "InMemory"]
RejectingRepository(error) == [kind |-> "Rejecting", error |-> error]
MsgSaveRejected == "save rejected"
Null == [null |-> TRUE]
Undefined == [undefined |-> TRUE]

EmptyStr == [ch |-> "", len |-> 0]
Repeat(ch, n) == IF n = 0 THEN EmptyStr ELSE [ch |-> ch, len |-> n]
StrLength(s) == s.len

\* Date comparison a <= b of JavaScript: the time values are compared as
\* numbers, and every comparison with NaN is false.
DateLe(a, b) == a # InvalidDate /\ b # InvalidDate /\ a.time <= b.time

(***************************************************************************)
(* createTrainingId: uuid v4 over 16 random bytes                          *)
(***************************************************************************)
HexDigits == <<"0", "1", "2", "3", "4", "5", "6", "7", "8", "9", "a", "b", "c", "d", "e", "f">>
HexDigitsAnyCase ==
    {"0", "1", "2", "3", "4", "5", "6", "7", "8", "9", "a", "b", "c", "d", "e", "f",
     "A", "B", "C", "D", "E", "F"}

byteToHex(b) == <<HexDigits[(b \div 16) + 1], HexDigits[(b % 16) + 1]>>

\* unsafeStringify of uuid: 4-2-2-2-6 bytes, lowercase hex, joined by '-'
unsafeStringifyUpper(arr) ==
    [i \in 1..36 |->
        IF i \in {9, 14, 19, 24} THEN "-"
        ELSE LET k == i - (IF i > 24 THEN 4 ELSE IF i > 19 THEN 3
                           ELSE IF i > 14 THEN 2 ELSE IF i > 9 THEN 1 ELSE 0)
                 b == arr[(k - 1) \div 2]
                 d == IF k % 2 = 1 THEN b \div 16 ELSE b % 16
             IN  IF d < 10 THEN HexDigits[d + 1] ELSE <<"A", "B", "C", "D", "E", "F">>[d - 9]]
unsafeStringify(arr) ==
    byteToHex(arr[0]) \o byteToHex(arr[1]) \o byteToHex(arr[2]) \o byteToHex(arr[3])
        \o <<"-">> \o byteToHex(arr[4]) \o byteToHex(arr[5])
        \o <<"-">> \o byteToHex(arr[6]) \o byteToHex(arr[7])
        \o <<"-">> \o byteToHex(arr[8]) \o byteToHex(arr[9])
        \o <<"-">> \o byteToHex(arr[10]) \o byteToHex(arr[11]) \o byteToHex(arr[12])
        \o byteToHex(arr[13]) \o byteToHex(arr[14]) \o byteToHex(arr[15])

\* v4 sets the version nibble and the variant bits before formatting:
\* rnds[6] = (rnds[6] & 0x0f) | 0x40, rnds[8] = (rnds[8] & 0x3f) | 0x80
v4Bits(rnds) ==
    [i \in 0..15 |-> IF i = 6 THEN (rnds[i] % 16) + 64
                     ELSE IF i = 8 THEN (rnds[i] % 64) + 128
                     ELSE rnds[i]]

\* Faulty variant: the digits come from an upper-case table
uuidv4Upper(rnds) == unsafeStringifyUpper(v4Bits(rnds))
uuidv4(rnds) == unsafeStringify(v4Bits(rnds))

createTrainingId(rnds) == uuidv4(rnds)

\* The values the random source may deliver: every byte is b, but byte 6 is b6.
\* and two values that differ in the version nibble alone.
ByteSamples == {15, 165, 255}
RandomBytes ==
    {[i \in 0..15 |-> b] : b \in ByteSamples}
        \cup {[i \in 0..15 |-> IF i = 6 THEN 255 ELSE 15]}
\* The values it delivers to the handler: one per identifier
HandlerRandomBytes == {[i \in 0..15 |-> b] : b \in ByteSamples}

(***************************************************************************)
(* TrainingStatusSchema and TrainingSchema (Zod)                            *)
(*                                                                         *)
(* safeParse visits the keys of the object in the order of the schema and   *)
(* collects the issue of every failing rule in that order.                  *)
(***************************************************************************)
dateIssues(d) == IF d = InvalidDate THEN <<MsgInvalidDate>> ELSE <<>>

\* z.string(): every string passes, whatever its length
plainStringIssues(s) == IF s = Undefined THEN <<MsgRequired>> ELSE <<>>

\* z.discriminatedUnion('type', [DRAFT, PUBLISHED, CANCELLED])
TrainingStatusSchemaIssues(status) ==
    CASE status.type = "DRAFT" -> dateIssues(status.createdAt)
      [] status.type = "PUBLISHED" -> dateIssues(status.publishedAt)
      [] status.type = "CANCELLED" ->
            dateIssues(status.cancelledAt) \o plainStringIssues(status.reason)
      [] OTHER -> <<MsgInvalidDiscriminator>>

\* z.string().uuid(): 8-4-4-4-12 hexadecimal digits of either case
isUuid(id) ==
    /\ Len(id) = 36
    /\ \A i \in 1..36 :
        IF i \in {9, 14, 19, 24}
        THEN id[i] = "-"
        ELSE id[i] \in HexDigitsAnyCase

idIssues(id) == IF isUuid(id) THEN <<>> ELSE <<MsgInvalidUuid>>

\* z.string().min(lo, minMsg).max(hi, maxMsg)
\* Faulty variant: the minimum is off by one
stringIssuesMinOff(s, lo, minMsg, hi, maxMsg) ==
    (IF StrLength(s) < lo - 1 THEN <<minMsg>> ELSE <<>>)
        \o (IF StrLength(s) > hi THEN <<maxMsg>> ELSE <<>>)
\* Faulty variant: the maximum is exclusive
stringIssuesMaxOff(s, lo, minMsg, hi, maxMsg) ==
    (IF StrLength(s) < lo THEN <<minMsg>> ELSE <<>>)
        \o (IF StrLength(s) >= hi THEN <<maxMsg>> ELSE <<>>)
stringIssues(s, lo, minMsg, hi, maxMsg) ==
    (IF StrLength(s) < lo THEN <<minMsg>> ELSE <<>>)
        \o (IF StrLength(s) > hi THEN <<maxMsg>> ELSE <<>>)

\* z.number().int().min(lo, minMsg).max(hi, maxMsg); the model's numbers are
\* integers, so int() raises no issue
\* Faulty variant: the maximum is not checked
numberIssuesNoMax(n, lo, minMsg, hi, maxMsg) ==
    IF n < lo THEN <<minMsg>> ELSE <<>>
\* Faulty variant: the maximum is off by one
numberIssuesMaxOff(n, lo, minMsg, hi, maxMsg) ==
    (IF n < lo THEN <<minMsg>> ELSE <<>>) \o (IF n > hi + 1 THEN <<maxMsg>> ELSE <<>>)
\* Faulty variant: the two messages are exchanged
numberIssuesSwapped(n, lo, minMsg, hi, maxMsg) ==
    (IF n < lo THEN <<maxMsg>> ELSE <<>>) \o (IF n > hi THEN <<minMsg>> ELSE <<>>)
numberIssues(n, lo, minMsg, hi, maxMsg) ==
    (IF n < lo THEN <<minMsg>> ELSE <<>>) \o (IF n > hi THEN <<maxMsg>> ELSE <<>>)

\* z.number().int().nonnegative()
nonnegativeIssues(n) == IF n < 0 THEN <<MsgNonNegative>> ELSE <<>>

TrainingSchemaIssues(t) ==
    idIssues(t.id)
        \o stringIssues(t.title, TitleMin, MsgTitleRequired, TitleMax, MsgTitleTooLong)
        \o stringIssues(t.description, DescriptionMin, MsgDescriptionRequired,
                        DescriptionMax, MsgDescriptionTooLong)
        \o dateIssues(t.dateTime)
        \o stringIssues(t.location, LocationMin, MsgLocationRequired,
                        LocationMax, MsgLocationTooLong)
        \o numberIssues(t.capacity, CapacityMin, MsgCapacityTooLow,
                        CapacityMax, MsgCapacityTooHigh)
        \o nonnegativeIssues(t.registeredCount)
        \o TrainingStatusSchemaIssues(t.status)
        \o dateIssues(t.createdAt)
        \o dateIssues(t.updatedAt)

\* The parsed value: the keys of the schema, each with the value parsed for it
TrainingSchemaData(t) ==
    [id |-> t.id, title |-> t.title, description |-> t.description,
     dateTime |-> t.dateTime, location |-> t.location, capacity |-> t.capacity,
     registeredCount |-> t.registeredCount, status |-> t.status,
     createdAt |-> t.createdAt, updatedAt |-> t.updatedAt]

safeParseReturn(t, issues) ==
    IF issues = <<>>
    THEN [success |-> TRUE, data |-> TrainingSchemaData(t)]
    ELSE [success |-> FALSE, errors |-> issues]

TrainingSchemaSafeParse(t) == safeParseReturn(t, TrainingSchemaIssues(t))

(***************************************************************************)
(* createTraining, in its two texts                                        *)
(***************************************************************************)
\* Faulty variant: registeredCount starts at the capacity
newTrainingCountsCapacity(d, now, rnds) ==
    [id |-> createTrainingId(rnds),
     title |-> d.title,
     description |-> d.description,
     dateTime |-> d.dateTime,
     location |-> d.location,
     capacity |-> d.capacity,
     registeredCount |-> d.capacity,
     status |-> [type |-> "DRAFT", createdAt |-> now],
     createdAt |-> now,
     updatedAt |-> now]

\* Faulty variant: updatedAt comes from a second, later reading of the clock
newTrainingSecondNow(d, now, rnds) ==
    [id |-> createTrainingId(rnds),
     title |-> d.title,
     description |-> d.description,
     dateTime |-> d.dateTime,
     location |-> d.location,
     capacity |-> d.capacity,
     registeredCount |-> 0,
     status |-> [type |-> "DRAFT", createdAt |-> now],
     createdAt |-> now,
     updatedAt |-> [time |-> now.time + 1]]

\* Faulty variant: the entity starts as published
newTrainingPublished(d, now, rnds) ==
    [id |-> createTrainingId(rnds),
     title |-> d.title,
     description |-> d.description,
     dateTime |-> d.dateTime,
     location |-> d.location,
     capacity |-> d.capacity,
     registeredCount |-> 0,
     status |-> [type |-> "PUBLISHED", publishedAt |-> now],
     createdAt |-> now,
     updatedAt |-> now]

\* The object both texts build before they validate it
newTraining(d, now, rnds) ==
    [id |-> createTrainingId(rnds),
     title |-> d.title,
     description |-> d.description,
     dateTime |-> d.dateTime,
     location |-> d.location,
     capacity |-> d.capacity,
     registeredCount |-> 0,
     status |-> [type |-> "DRAFT", createdAt |-> now],
     createdAt |-> now,
     updatedAt |-> now]

\* result.success ? {success: true, value: result.data}
\*                : {success: false, error: errors[0]?.message || 'Invalid training'}
\* Faulty variant: the message of the last issue is reported
resultOfParseLastIssue(parsed) ==
    IF parsed.success
    THEN [success |-> TRUE, value |-> parsed.data]
    ELSE [success |-> FALSE,
          error |-> IF Len(parsed.errors) >= 1 THEN parsed.errors[Len(parsed.errors)]
                    ELSE MsgInvalidTraining]
resultOfParse(parsed) ==
    IF parsed.success
    THEN [success |-> TRUE, value |-> parsed.data]
    ELSE [success |-> FALSE,
          error |-> IF Len(parsed.errors) >= 1 THEN parsed.errors[1] ELSE MsgInvalidTraining]

\* functions.ts: no comparison of dateTime with now
createTraining_functions_ts(d, now, rnds) ==
    resultOfParse(TrainingSchemaSafeParse(newTraining(d, now, rnds)))

\* part_003: if (data.dateTime <= now) return the past-date failure
createTraining_part_003(d, now, rnds) ==
    IF DateLe(d.dateTime, now)
    THEN [success |-> FALSE, error |-> MsgPastDate]
    ELSE resultOfParse(TrainingSchemaSafeParse(newTraining(d, now, rnds)))

FunctionsModules == {"part_003", "functions.ts"}

\* createTraining(data) of the module that '../domain/functions' resolves
\* to; now is the value new Date() has at the call, rnds the random bytes
\* uuidv4 draws
createTraining(d, now, rnds) ==
    IF functionsModule = "functions.ts"
    THEN createTraining_functions_ts(d, now, rnds)
    ELSE createTraining_part_003(d, now, rnds)

(***************************************************************************)
(* Inputs                                                                  *)
(***************************************************************************)
TitleInputs == {Repeat("a", n) : n \in {0, 1, TitleMax, TitleMax + 1}}
DescriptionInputs == {Repeat("a", n) : n \in {0, 1, DescriptionMax, DescriptionMax + 1}}
LocationInputs == {Repeat("a", n) : n \in {0, 1, LocationMax, LocationMax + 1}}
CapacityInputs == {-1, 0, 1, 30, CapacityMax, CapacityMax + 1}
DateInputs == {Date(t) : t \in 0..(MaxTime + 1)} \cup {InvalidDate}

TrainingData ==
    [title : TitleInputs, description : DescriptionInputs, dateTime : DateInputs,
     location : LocationInputs, capacity : CapacityInputs]

(***************************************************************************)
(* SpecCreate: createTraining applied to one field set                     *)
(***************************************************************************)
InitCreate ==
    /\ functionsModule \in FunctionsModules
    /\ clock \in 0..MaxTime
    /\ data \in TrainingData
    /\ result = NoResult
    /\ issued = <<>>
    /\ trainings = <<>>
    /\ task = NoTask
    /\ handled = <<>>
    /\ repository = InMemoryTrainingRepository
    /\ call = NoCall
    /\ saved = <<>>
    /\ entity = NoEntity

CallCreateTraining ==
    /\ data # NoData
    /\ result = NoResult
    /\ \E rnds \in RandomBytes : result' = createTraining(data, Date(clock), rnds)
    /\ UNCHANGED <<functionsModule, clock, data, issued, trainings, task, handled, repository, direct>>

NextCreate == CallCreateTraining

SpecCreate == InitCreate /\ [][NextCreate]_vars

(***************************************************************************)
(* Either and AppError (shared/types, fp-ts)                               *)
(***************************************************************************)
right(v) == [tag |-> "Right", right |-> v]
left(e) == [tag |-> "Left", left |-> e]

validationError(message) == [type |-> "ValidationError", message |-> message]
domainError(message) == [type |-> "DomainError", message |-> message]

(***************************************************************************)
(* InMemoryTrainingRepository: trainings is a Map, kept as the sequence of  *)
(* its entries in insertion order                                          *)
(***************************************************************************)
MapHas(m, k) == \E i \in 1..Len(m) : m[i].key = k
MapGet(m, k) == m[CHOOSE i \in 1..Len(m) : m[i].key = k].value
\* Faulty variant: a stored key keeps its value
MapSetKeepsStored(m, k, v) ==
    IF MapHas(m, k) THEN m ELSE Append(m, [key |-> k, value |-> v])
\* Faulty variant: every set appends an entry
MapSetAppends(m, k, v) == Append(m, [key |-> k, value |-> v])
\* Faulty variant: the set drops every other entry
MapSetAlone(m, k, v) == <<[key |-> k, value |-> v]>>
\* Map.set: a stored key keeps its place and takes the new value; a new key
\* is appended
MapSet(m, k, v) ==
    IF MapHas(m, k)
    THEN [i \in 1..Len(m) |-> IF m[i].key = k THEN [key |-> k, value |-> v] ELSE m[i]]
    ELSE Append(m, [key |-> k, value |-> v])
MapValues(m) == [i \in 1..Len(m) |-> m[i].value]

\* Faulty variant: the entity is returned but not stored
saveWithoutSet(m, training) ==
    [store |-> m, either |-> right(training)]
\* Faulty variant: every save adds an entry
saveAppends(m, training) ==
    [store |-> Append(m, [key |-> training.id, value |-> training]), either |-> right(training)]
\* Faulty variant: an entity whose identifier is stored is refused
saveRejectsStored(m, training) ==
    IF MapHas(m, training.id)
    THEN [store |-> m, either |-> left(domainError("already stored"))]
    ELSE [store |-> MapSet(m, training.id, training), either |-> right(training)]
\* save: this.trainings.set(training.id, training); return TE.right(training)
save(m, training) ==
    [store |-> MapSet(m, training.id, training), either |-> right(training)]

\* Faulty variant: an absent entity is reported as a failure
findByIdFailsWhenAbsent(m, id) ==
    IF MapHas(m, id) THEN right(MapGet(m, id)) ELSE left(domainError("not found"))
\* findById: this.trainings.get(id) || null
findById(m, id) == right(IF MapHas(m, id) THEN MapGet(m, id) ELSE Null)

\* findAll: Array.from(this.trainings.values())
findAll(m) == right(MapValues(m))

\* clear: this.trainings.clear()
clear(m) == <<>>

size(m) == Len(m)

\* repository.save(training) of the repository the handler was given
repositorySave(repo, m, training) ==
    IF repo.kind = "InMemory"
    THEN save(m, training)
    ELSE [store |-> m, either |-> left(repo.error)]

(***************************************************************************)
(* createTrainingHandler                                                   *)
(***************************************************************************)
\* Faulty variant: the failure is lifted as a DomainError
liftAsDomain(r) ==
    [result |-> r,
     either |-> IF r.success THEN right(r.value) ELSE left(domainError(r.error))]
validateAndCreateTrainingAsDomain(command, now, rnds) ==
    liftAsDomain(createTraining(command, now, rnds))
\* result.success ? right(result.value) : left(validationError(result.error));
\* result is what createTraining returned, either is what is returned
liftResult(r) ==
    [result |-> r,
     either |-> IF r.success THEN right(r.value) ELSE left(validationError(r.error))]
validateAndCreateTraining(command, now, rnds) ==
    liftResult(createTraining(command, now, rnds))

\* Running pipe(fromEither(either), chain(training => repository.save(training)))
\* against the store m: a Left passes through, a Right is saved by the
\* repository; saves counts the calls of repository.save
\* Faulty variant: the rejected input is saved too
runPipelineSavesRejected(repo, either, m) ==
    IF either.tag = "Left"
    THEN [store |-> MapSet(m, <<>>, either.left), either |-> either, saves |-> 1]
    ELSE LET stored == repositorySave(repo, m, either.right)
         IN  [store |-> stored.store, either |-> stored.either, saves |-> 1]
\* Faulty variant: a failure of the save is wrapped in a DomainError
runPipelineRemapsFailure(repo, either, m) ==
    IF either.tag = "Left"
    THEN [store |-> m, either |-> either, saves |-> 0]
    ELSE LET stored == repositorySave(repo, m, either.right)
         IN  [store |-> stored.store,
              either |-> IF stored.either.tag = "Left"
                         THEN left(domainError(stored.either.left.message))
                         ELSE stored.either,
              saves |-> 1]
\* Faulty variant: a failed save is tried once more
runPipelineRetries(repo, either, m) ==
    IF either.tag = "Left"
    THEN [store |-> m, either |-> either, saves |-> 0]
    ELSE LET stored == repositorySave(repo, m, either.right)
         IN  IF stored.either.tag = "Left"
             THEN LET again == repositorySave(repo, stored.store, either.right)
                  IN  [store |-> again.store, either |-> again.either, saves |-> 2]
             ELSE [store |-> stored.store, either |-> stored.either, saves |-> 1]
\* Faulty variant: a run does not save an entity whose identifier is stored
runPipelineSkipsStored(repo, either, m) ==
    IF either.tag = "Left"
    THEN [store |-> m, either |-> either, saves |-> 0]
    ELSE IF MapHas(m, either.right.id)
         THEN [store |-> m, either |-> either, saves |-> 0]
         ELSE LET stored == repositorySave(repo, m, either.right)
              IN  [store |-> stored.store, either |-> stored.either, saves |-> 1]
runPipeline(repo, either, m) ==
    IF either.tag = "Left"
    THEN [store |-> m, either |-> either, saves |-> 0]
    ELSE LET stored == repositorySave(repo, m, either.right)
         IN  [store |-> stored.store, either |-> stored.either, saves |-> 1]

(***************************************************************************)
(* Spec: commands through createTrainingHandler and the repository          *)
(***************************************************************************)
Command(title, description, dateTime, location, capacity) ==
    [title |-> title, description |-> description, dateTime |-> dateTime,
     location |-> location, capacity |-> capacity]

Future == Date(MaxTime + 1)

ValidCommands ==
    {Command(Repeat("a", 1), Repeat("b", DescriptionMax), Future, Repeat("c", LocationMax), 1),
     Command(Repeat("d", TitleMax), Repeat("e", 1), Date(1), Repeat("f", 1), CapacityMax)}

InvalidCommands ==
    {Command(EmptyStr, Repeat("e", 1), Future, Repeat("f", 1), 30),
     Command(Repeat("a", 1), Repeat("e", DescriptionMax + 1), Future, Repeat("f", 1), 30),
     Command(Repeat("a", 1), Repeat("e", 1), Future, Repeat("f", LocationMax + 1), 0),
     Command(Repeat("a", 1), Repeat("e", 1), Future, Repeat("f", 1), CapacityMax + 1),
     Command(Repeat("a", 1), Repeat("e", 1), Date(0), Repeat("f", 1), 30),
     Command(EmptyStr, EmptyStr, Date(0), EmptyStr, 0)}

Commands == ValidCommands \cup InvalidCommands

Init ==
    /\ functionsModule \in FunctionsModules
    /\ clock = 0
    /\ data = NoData
    /\ result = NoResult
    /\ issued = <<>>
    /\ trainings = <<>>
    /\ task = NoTask
    /\ handled = <<>>
    /\ repository = InMemoryTrainingRepository
    /\ call = NoCall
    /\ saved = <<>>
    /\ entity = NoEntity

\* The wall clock advances
Tick ==
    /\ clock < MaxTime
    /\ clock' = clock + 1
    /\ UNCHANGED <<functionsModule, data, result, issued, trainings, task, handled, repository, direct>>

\* createTrainingHandler(repository)(command): the entity is validated and
\* built at the call; what is returned is the deferred computation. at and
\* created record the time of the call and what createTraining returned:
\* whether it succeeded and, when it failed, its message.
HandleCommand ==
    /\ Len(handled) < MaxHandled
    /\ \E command \in Commands, rnds \in HandlerRandomBytes :
      \E made \in {validateAndCreateTraining(command, Date(clock), rnds)} :
        task' = [command |-> command,
                 at |-> clock,
                 created |-> IF made.result.success
                             THEN [success |-> TRUE]
                             ELSE [success |-> FALSE, error |-> made.result.error],
                 either |-> made.either,
                 runs |-> 0,
                 out |-> NoResult,
                 saves |-> 0,
                 calls |-> 0,
                 before |-> trainings,
                 first |-> trainings]
    /\ UNCHANGED <<functionsModule, clock, data, result, issued, trainings, handled, repository, direct>>

\* The deferred computation is run (awaited); it may be run again. runs
\* counts the runs up to "more than one"; before is the store the run found,
\* saves the calls of repository.save in this run and calls those in all runs
\* of the task, counted like runs; first stays the store the handler's call
\* found, which is the store the first run finds.
RunTask ==
    /\ task # NoTask
    /\ LET run == runPipeline(repository, task.either, trainings)
       IN  /\ trainings' = run.store
           /\ task' = [task EXCEPT !.runs = IF task.runs = 0 THEN 1 ELSE 2,
                                   !.out = run.either,
                                   !.saves = run.saves,
                                   !.calls = IF task.calls + run.saves >= 2 THEN 2
                                             ELSE task.calls + run.saves,
                                   !.before = trainings]
           /\ handled' = IF task.runs = 0 /\ run.either.tag = "Right"
                         THEN Append(handled, [command |-> task.command,
                                               at |-> task.at,
                                               id |-> run.either.right.id])
                         ELSE handled
    /\ UNCHANGED <<functionsModule, clock, data, result, issued, repository, direct>>

Next == Tick \/ HandleCommand \/ RunTask

Spec == Init /\ [][Next]_vars

(***************************************************************************)
(* SpecSave: the handler given any repository: the in-memory one or one     *)
(* whose save fails                                                        *)
(***************************************************************************)
RepositoryErrors == {domainError(MsgSaveRejected), validationError(MsgSaveRejected)}
Repositories ==
    {InMemoryTrainingRepository} \cup {RejectingRepository(e) : e \in RepositoryErrors}

InitSave ==
    /\ functionsModule \in FunctionsModules
    /\ clock = 0
    /\ data = NoData
    /\ result = NoResult
    /\ issued = <<>>
    /\ trainings = <<>>
    /\ task = NoTask
    /\ handled = <<>>
    /\ repository \in Repositories
    /\ call = NoCall
    /\ saved = <<>>
    /\ entity = NoEntity

NextSave == Tick \/ HandleCommand \/ RunTask

SpecSave == InitSave /\ [][NextSave]_vars

(***************************************************************************)
(* The transitions publish, complete and cancel of the entity lifecycle.    *)
(* A transition checks the current state, builds a new snapshot with the    *)
(* new status and updatedAt refreshed, and passes it through the validation *)
(* that createTraining uses (TrainingSchema). Each returns its Result and,  *)
(* as input, the object it was given as it is after the call.              *)
(***************************************************************************)
ReasonMin == 5
MsgNotAllowedInState == "operation not allowed in current state: "
MsgReasonTooShort == "reason: too short"

notAllowedIn(status) == MsgNotAllowedInState \o status.type

withStatus(e, status, now) == [e EXCEPT !.status = status, !.updatedAt = now]

validate(record) == resultOfParse(TrainingSchemaSafeParse(record))

\* Faulty variant: the current state is not looked at
publishFromAnyState(e, now) ==
    [result |-> validate(withStatus(e, [type |-> "PUBLISHED", publishedAt |-> now], now)),
     input |-> e]
publish(e, now) ==
    IF e.status.type # "DRAFT"
    THEN [result |-> [success |-> FALSE, error |-> notAllowedIn(e.status)], input |-> e]
    ELSE [result |-> validate(withStatus(e, [type |-> "PUBLISHED", publishedAt |-> now], now)),
          input |-> e]

complete(e, now) ==
    IF e.status.type # "PUBLISHED"
    THEN [result |-> [success |-> FALSE, error |-> notAllowedIn(e.status)], input |-> e]
    ELSE [result |-> validate(withStatus(e, [type |-> "COMPLETED", completedAt |-> now], now)),
          input |-> e]

\* Faulty variant: a cancelled entity can be cancelled again
cancelFromCancelled(e, reason, now) ==
    IF e.status.type \notin {"DRAFT", "PUBLISHED", "CANCELLED"}
    THEN [result |-> [success |-> FALSE, error |-> notAllowedIn(e.status)], input |-> e]
    ELSE IF StrLength(reason) < ReasonMin
    THEN [result |-> [success |-> FALSE, error |-> MsgReasonTooShort], input |-> e]
    ELSE [result |-> validate(withStatus(e, [type |-> "CANCELLED", cancelledAt |-> now,
                                             reason |-> reason], now)),
          input |-> e]
cancel(e, reason, now) ==
    IF e.status.type \notin {"DRAFT", "PUBLISHED"}
    THEN [result |-> [success |-> FALSE, error |-> notAllowedIn(e.status)], input |-> e]
    ELSE IF StrLength(reason) < ReasonMin
    THEN [result |-> [success |-> FALSE, error |-> MsgReasonTooShort], input |-> e]
    ELSE [result |-> validate(withStatus(e, [type |-> "CANCELLED", cancelledAt |-> now,
                                             reason |-> reason], now)),
          input |-> e]

(***************************************************************************)
(* SpecLifecycle: one entity, created by createTraining and taken through   *)
(* the transitions; entity is the snapshot the caller holds and the         *)
(* statuses it went through, call the last call. ValidateRecord passes a    *)
(* record with any status through the validation.                          *)
(***************************************************************************)
ReasonInputs == {Repeat("r", n) : n \in {0, 1, ReasonMin - 1, ReasonMin, ReasonMin + 1}}

StatusInputs ==
    {[type |-> "DRAFT", createdAt |-> d] : d \in {Date(0), InvalidDate}}
        \cup {[type |-> "PUBLISHED", publishedAt |-> d] : d \in {Date(0), InvalidDate}}
        \cup {[type |-> "COMPLETED", completedAt |-> d] : d \in {Date(0), InvalidDate}}
        \cup {[type |-> "CANCELLED", cancelledAt |-> d, reason |-> r] :
                d \in {Date(0), InvalidDate}, r \in ReasonInputs \cup {Undefined}}

InitLifecycle ==
    /\ functionsModule \in FunctionsModules
    /\ clock = 0
    /\ data = NoData
    /\ result = NoResult
    /\ issued = <<>>
    /\ trainings = <<>>
    /\ task = NoTask
    /\ handled = <<>>
    /\ repository = InMemoryTrainingRepository
    /\ call = NoCall
    /\ saved = <<>>
    /\ entity = NoEntity

Create ==
    /\ entity = NoEntity
    /\ \E c \in ValidCommands, rnds \in HandlerRandomBytes :
      \E made \in {createTraining(c, Date(clock), rnds)} :
        /\ made.success
        /\ entity' = [value |-> made.value, path |-> <<made.value.status.type>>]
        /\ call' = [op |-> "create", arg |-> c, at |-> clock, out |-> made]
    /\ UNCHANGED <<functionsModule, clock, data, result, issued, trainings, task, handled,
                   repository, saved>>

\* The caller keeps the snapshot a successful transition returned
adopt(out) ==
    IF out.success
    THEN [value |-> out.value, path |-> Append(entity.path, out.value.status.type)]
    ELSE entity

Publish ==
    /\ entity # NoEntity
    /\ \E made \in {publish(entity.value, Date(clock))} :
        /\ call' = [op |-> "publish", arg |-> Null, at |-> clock,
                    before |-> entity.value, input |-> made.input, out |-> made.result]
        /\ entity' = adopt(made.result)
    /\ UNCHANGED <<functionsModule, clock, data, result, issued, trainings, task, handled,
                   repository, saved>>

Complete ==
    /\ entity # NoEntity
    /\ \E made \in {complete(entity.value, Date(clock))} :
        /\ call' = [op |-> "complete", arg |-> Null, at |-> clock,
                    before |-> entity.value, input |-> made.input, out |-> made.result]
        /\ entity' = adopt(made.result)
    /\ UNCHANGED <<functionsModule, clock, data, result, issued, trainings, task, handled,
                   repository, saved>>

Cancel ==
    /\ entity # NoEntity
    /\ \E reason \in ReasonInputs :
      \E made \in {cancel(entity.value, reason, Date(clock))} :
        /\ call' = [op |-> "cancel", arg |-> reason, at |-> clock,
                    before |-> entity.value, input |-> made.input, out |-> made.result]
        /\ entity' = adopt(made.result)
    /\ UNCHANGED <<functionsModule, clock, data, result, issued, trainings, task, handled,
                   repository, saved>>

ValidateRecord ==
    /\ entity # NoEntity
    /\ \E status \in StatusInputs :
      \E record \in {[entity.value EXCEPT !.status = status]} :
        call' = [op |-> "validate", arg |-> record, at |-> clock,
                 before |-> entity.value, input |-> entity.value, out |-> validate(record)]
    /\ UNCHANGED <<functionsModule, clock, data, result, issued, trainings, task, handled,
                   repository, saved, entity>>

NextLifecycle == Tick \/ Create \/ Publish \/ Complete \/ Cancel \/ ValidateRecord

SpecLifecycle == InitLifecycle /\ [][NextLifecycle]_vars

(***************************************************************************)
(* SpecId: identifiers from createTrainingId, called directly and by        *)
(* createTraining                                                          *)
(***************************************************************************)
InitId ==
    /\ functionsModule \in FunctionsModules
    /\ clock = 0
    /\ data \in ValidCommands
    /\ result = NoResult
    /\ issued = <<>>
    /\ trainings = <<>>
    /\ task = NoTask
    /\ handled = <<>>
    /\ repository = InMemoryTrainingRepository
    /\ call = NoCall
    /\ saved = <<>>
    /\ entity = NoEntity

CallCreateTrainingId ==
    /\ Len(issued) < MaxIssued
    /\ \E rnds \in RandomBytes :
        issued' = Append(issued, [rnds |-> rnds, id |-> createTrainingId(rnds)])
    /\ UNCHANGED <<functionsModule, clock, data, result, trainings, task, handled, repository, direct>>

CallCreateTrainingForId ==
    /\ Len(issued) < MaxIssued
    /\ \E rnds \in RandomBytes :
        /\ result' = createTraining(data, Date(clock), rnds)
        /\ result'.success
        /\ issued' = Append(issued, [rnds |-> rnds, id |-> result'.value.id])
    /\ UNCHANGED <<functionsModule, clock, data, trainings, task, handled, repository, direct>>

NextId == CallCreateTrainingId \/ CallCreateTrainingForId

SpecId == InitId /\ [][NextId]_vars

(***************************************************************************)
(* SpecRepo: the methods of InMemoryTrainingRepository, called directly.    *)
(* call records the last call: the method, its argument, the store it       *)
(* found, what it returned, and the method and argument of the call before  *)
(* it. saved lists the entities saved since the store was last empty.       *)
(***************************************************************************)
RepoEntities ==
    {newTraining(c, Date(0), rnds) : c \in ValidCommands, rnds \in HandlerRandomBytes}
RepoIds == {createTrainingId(rnds) : rnds \in HandlerRandomBytes}

InitRepo ==
    /\ functionsModule \in FunctionsModules
    /\ clock = 0
    /\ data = NoData
    /\ result = NoResult
    /\ issued = <<>>
    /\ trainings = <<>>
    /\ task = NoTask
    /\ handled = <<>>
    /\ repository = InMemoryTrainingRepository
    /\ call = NoCall
    /\ saved = <<>>
    /\ entity = NoEntity

Previous == IF call = NoCall THEN NoCall ELSE [op |-> call.op, arg |-> call.arg]

RepoSave ==
    /\ Len(saved) < MaxSaved
    /\ \E training \in RepoEntities :
      \E stored \in {save(trainings, training)} :
        /\ trainings' = stored.store
        /\ call' = [op |-> "save", arg |-> training, before |-> trainings,
                    out |-> stored.either, prev |-> Previous]
        /\ saved' = Append(saved, training)
    /\ UNCHANGED <<functionsModule, clock, data, result, issued, task, handled,
                   repository, entity>>

RepoFindById ==
    /\ \E id \in RepoIds :
        call' = [op |-> "findById", arg |-> id, before |-> trainings,
                 out |-> findById(trainings, id), prev |-> Previous]
    /\ UNCHANGED <<functionsModule, clock, data, result, issued, trainings, task, handled,
                   repository, saved, entity>>

RepoFindAll ==
    /\ call' = [op |-> "findAll", arg |-> Null, before |-> trainings,
                out |-> findAll(trainings), prev |-> Previous]
    /\ UNCHANGED <<functionsModule, clock, data, result, issued, trainings, task, handled,
                   repository, saved, entity>>

RepoClear ==
    /\ trainings' = clear(trainings)
    /\ call' = [op |-> "clear", arg |-> Null, before |-> trainings,
                out |-> Null, prev |-> Previous]
    /\ saved' = <<>>
    /\ UNCHANGED <<functionsModule, clock, data, result, issued, task, handled,
                   repository, entity>>

RepoSize ==
    /\ call' = [op |-> "size", arg |-> Null, before |-> trainings,
                out |-> size(trainings), prev |-> Previous]
    /\ UNCHANGED <<functionsModule, clock, data, result, issued, trainings, task, handled,
                   repository, saved, entity>>

NextRepo == RepoSave \/ RepoFindById \/ RepoFindAll \/ RepoClear \/ RepoSize

SpecRepo == InitRepo /\ [][NextRepo]_vars

(***************************************************************************)
(* The field rules, as the claims state them                               *)
(***************************************************************************)
TitleOk(d) == StrLength(d.title) >= 1 /\ StrLength(d.title) <= 100
DescriptionOk(d) == StrLength(d.description) >= 1 /\ StrLength(d.description) <= 1000
LocationOk(d) == StrLength(d.location) >= 1 /\ StrLength(d.location) <= 100
CapacityOk(d) == d.capacity >= 1 /\ d.capacity <= 1000
DateTimeOk(d, now) == d.dateTime # InvalidDate /\ d.dateTime.time > now
FieldsOk(d, now) ==
    TitleOk(d) /\ DescriptionOk(d) /\ LocationOk(d) /\ CapacityOk(d) /\ DateTimeOk(d, now)

\* The layout the test of createTrainingId matches:
\* /^[0-9a-f]{8}-[0-9a-f]{4}-[0-9a-f]{4}-[0-9a-f]{4}-[0-9a-f]{12}$/
CanonicalUuid(id) ==
    /\ Len(id) = 36
    /\ \A i \in 1..36 :
        IF i \in {9, 14, 19, 24}
        THEN id[i] = "-"
        ELSE id[i] \in {"0", "1", "2", "3", "4", "5", "6", "7", "8", "9",
                        "a", "b", "c", "d", "e", "f"}

Called == result # NoResult

(***************************************************************************)
(* C1: for every field set that satisfies all field rules, createTraining   *)
(* succeeds and returns an entity with status DRAFT, registeredCount 0, an  *)
(* identifier in canonical UUID form, and title, description, dateTime,     *)
(* location and capacity equal to the input.                               *)
(***************************************************************************)
C1_ValidFieldsCreateDraft ==
    (Called /\ FieldsOk(data, clock)) =>
        /\ result.success
        /\ result.value.status.type = "DRAFT"
        /\ result.value.registeredCount = 0
        /\ CanonicalUuid(result.value.id)
        /\ result.value.title = data.title
        /\ result.value.description = data.description
        /\ result.value.dateTime = data.dateTime
        /\ result.value.location = data.location
        /\ result.value.capacity = data.capacity

C1_Witness ==
    /\ Called
    /\ FieldsOk(data, clock)
    /\ result.success
    /\ StrLength(data.title) = 100
    /\ StrLength(data.location) = 1
    /\ data.capacity = 30

(***************************************************************************)
(* C2: with all other fields valid, createTraining fails with the past-date *)
(* message for every dateTime before or equal to the now read at the call,  *)
(* and succeeds for every dateTime strictly after that now.                 *)
(***************************************************************************)
OthersOkForDate(d) == TitleOk(d) /\ DescriptionOk(d) /\ LocationOk(d) /\ CapacityOk(d)

C2_PastDateRejected ==
    (Called /\ OthersOkForDate(data) /\ data.dateTime # InvalidDate) =>
        IF data.dateTime.time <= clock
        THEN ~result.success /\ result.error = MsgPastDate
        ELSE result.success

(***************************************************************************)
(* C3: for each of title (max 100), description (max 1000) and location     *)
(* (max 100), with all other fields valid, createTraining succeeds when the *)
(* length of the field is 1 or exactly max and fails when it is 0 or max+1. *)
(***************************************************************************)
C3_StringBoundaries ==
    Called =>
        /\ (DescriptionOk(data) /\ LocationOk(data) /\ CapacityOk(data)
              /\ DateTimeOk(data, clock)) =>
                /\ StrLength(data.title) \in {1, 100} => result.success
                /\ StrLength(data.title) \in {0, 101} => ~result.success
        /\ (TitleOk(data) /\ LocationOk(data) /\ CapacityOk(data)
              /\ DateTimeOk(data, clock)) =>
                /\ StrLength(data.description) \in {1, 1000} => result.success
                /\ StrLength(data.description) \in {0, 1001} => ~result.success
        /\ (TitleOk(data) /\ DescriptionOk(data) /\ CapacityOk(data)
              /\ DateTimeOk(data, clock)) =>
                /\ StrLength(data.location) \in {1, 100} => result.success
                /\ StrLength(data.location) \in {0, 101} => ~result.success

C3_Witness ==
    /\ Called
    /\ TitleOk(data) /\ LocationOk(data) /\ CapacityOk(data) /\ DateTimeOk(data, clock)
    /\ StrLength(data.description) = 1001
    /\ ~result.success

(***************************************************************************)
(* C4: with all other fields valid, createTraining succeeds for every       *)
(* integer capacity c with 1 <= c <= 1000 and fails for every integer       *)
(* capacity outside that range, in particular for 0 and 1001.               *)
(***************************************************************************)
C4_CapacityRange ==
    (Called /\ TitleOk(data) /\ DescriptionOk(data) /\ LocationOk(data)
        /\ DateTimeOk(data, clock)) =>
            (result.success <=> (data.capacity >= 1 /\ data.capacity <= 1000))

C4_Witness ==
    /\ Called
    /\ TitleOk(data) /\ DescriptionOk(data) /\ LocationOk(data) /\ DateTimeOk(data, clock)
    /\ data.capacity = 1001
    /\ ~result.success

(***************************************************************************)
(* Helpers of the pipeline claims                                          *)
(***************************************************************************)
\* What createTraining returned to the handler at the call of the task
Created == task.created
Ran == task # NoTask /\ task.runs >= 1
RanOnce == task # NoTask /\ task.runs = 1
SameFields(e, c) ==
    /\ e.title = c.title
    /\ e.description = c.description
    /\ e.dateTime = c.dateTime
    /\ e.location = c.location
    /\ e.capacity = c.capacity
AllHandledValid == \A i \in 1..Len(handled) : FieldsOk(handled[i].command, handled[i].at)
HandledIds == {handled[i].id : i \in 1..Len(handled)}
DistinctHandledIds == \A i, j \in 1..Len(handled) : i # j => handled[i].id # handled[j].id

C6_EmptyTitleMessage ==
    (Ran /\ StrLength(task.command.title) = 0) =>
        /\ task.out.tag = "Left"
        /\ task.out.left.type = "ValidationError"
        /\ task.out.left.message = MsgTitleRequired
        /\ trainings = task.before

(***************************************************************************)
(* C6, amended: for every command whose title is empty,                    *)
(* createTrainingHandler yields a failure of type ValidationError and no    *)
(* entity is stored; the message is the title message whenever the dateTime *)
(* is not before or equal to now, and otherwise the title message or the    *)
(* past-date message.                                                      *)
(***************************************************************************)
C6_EmptyTitleRejected ==
    (Ran /\ StrLength(task.command.title) = 0) =>
        /\ task.out.tag = "Left"
        /\ task.out.left.type = "ValidationError"
        /\ IF DateLe(task.command.dateTime, Date(task.at))
           THEN task.out.left.message \in {MsgTitleRequired, MsgPastDate}
           ELSE task.out.left.message = MsgTitleRequired
        /\ trainings = task.before
        /\ task.saves = 0

C6_Witness ==
    /\ Ran
    /\ StrLength(task.command.title) = 0
    /\ ~DateLe(task.command.dateTime, Date(task.at))
    /\ task.out.tag = "Left"
    /\ task.out.left.message = MsgTitleRequired
    /\ size(trainings) >= 1

(***************************************************************************)
(* C7: whenever createTraining fails for a command, createTrainingHandler   *)
(* never invokes the save of the repository, and the repository contents    *)
(* after the command equal the contents before it.                         *)
(***************************************************************************)
C7_NoSaveOnFailure ==
    (Ran /\ ~Created.success) =>
        /\ task.saves = 0
        /\ trainings = task.before

C7_Witness ==
    /\ Ran
    /\ ~Created.success
    /\ size(trainings) >= 1
    /\ task.saves = 0

(***************************************************************************)
(* C8: every failure of createTraining surfaces from createTrainingHandler  *)
(* as an AppError of type ValidationError, never DomainError, whose message *)
(* is exactly the failure message createTraining returned.                 *)
(***************************************************************************)
C8_FailureIsValidationError ==
    (task # NoTask /\ ~Created.success) =>
        /\ task.either = [tag |-> "Left",
                          left |-> [type |-> "ValidationError",
                                    message |-> Created.error]]
        /\ Ran => task.out = task.either

C8_Witness ==
    /\ Ran
    /\ ~Created.success
    /\ Created.error = MsgCapacityTooHigh
    /\ task.out.tag = "Left"

LastWith(id) == CHOOSE i \in 1..Len(handled) :
    /\ handled[i].id = id
    /\ \A j \in 1..Len(handled) : handled[j].id = id => j <= i

SameFreeBits(r1, r2) ==
    /\ \A k \in 0..15 : k \notin {6, 8} => r1[k] = r2[k]
    /\ r1[6] % 16 = r2[6] % 16
    /\ r1[8] % 64 = r2[8] % 64

Did(op) == call # NoCall /\ call.op = op
SavedWith(id) == {k \in 1..Len(saved) : saved[k].id = id}
LastSavedWith(id) == saved[CHOOSE k \in SavedWith(id) : \A l \in SavedWith(id) : l <= k]

(***************************************************************************)
(* C11: the save of the repository stores by identifier: saving an entity   *)
(* whose identifier is already stored replaces the stored entity and leaves *)
(* the size unchanged, so the store never holds two entities with the same  *)
(* identifier; saving the same identifier and payload twice leaves the      *)
(* store exactly as after the first save.                                  *)
(***************************************************************************)
C11_SaveReplacesByIdentifier ==
    /\ \A i, j \in 1..Len(trainings) :
        i # j => trainings[i].value.id # trainings[j].value.id
    /\ \A i \in 1..Len(trainings) : trainings[i].key = trainings[i].value.id
    /\ Did("save") =>
        /\ call.out = right(call.arg)
        /\ findById(trainings, call.arg.id) = right(call.arg)
        /\ MapHas(call.before, call.arg.id) =>
            /\ size(trainings) = size(call.before)
            /\ \A i \in 1..Len(trainings) :
                trainings[i].key # call.arg.id => trainings[i] = call.before[i]
        /\ ~MapHas(call.before, call.arg.id) =>
            /\ size(trainings) = size(call.before) + 1
            /\ \A i \in 1..Len(call.before) : trainings[i] = call.before[i]
        /\ (call.prev = [op |-> "save", arg |-> call.arg]) => trainings = call.before

C11_Witness ==
    /\ Did("save")
    /\ call.prev = [op |-> "save", arg |-> call.arg]
    /\ trainings = call.before
    /\ Len(saved) = 3
    /\ size(trainings) = 1
    /\ saved[1].id = call.arg.id
    /\ saved[1] # call.arg

(***************************************************************************)
(* C12: findById returns a success, not an error: it holds the most         *)
(* recently saved entity with that identifier when one is stored, and the   *)
(* absent value (null) when no entity with that identifier is stored;       *)
(* findById never changes the store.                                       *)
(***************************************************************************)
C12_FindByIdSuccessOrNull ==
    Did("findById") =>
        /\ call.out.tag = "Right"
        /\ MapHas(call.before, call.arg) <=> SavedWith(call.arg) # {}
        /\ IF MapHas(call.before, call.arg)
           THEN call.out.right = LastSavedWith(call.arg)
           ELSE call.out.right = Null
        /\ trainings = call.before

C12_Witness ==
    /\ Did("findById")
    /\ Cardinality(SavedWith(call.arg)) = 2
    /\ saved[1].id = call.arg
    /\ saved[1] # LastSavedWith(call.arg)
    /\ call.out = right(LastSavedWith(call.arg))
    /\ size(trainings) = 2

(***************************************************************************)
(* C13: when createTraining succeeds, the result of createTrainingHandler   *)
(* is exactly the outcome of the repository's save for the constructed      *)
(* entity: a save success is returned as the handler's success with the     *)
(* same entity, and a save failure is returned as the handler's failure     *)
(* with the same AppError, without retry or remapping.                     *)
(***************************************************************************)
C13_SaveOutcomePropagated ==
    (Ran /\ Created.success) =>
        /\ task.either.tag = "Right"
        /\ task.saves = 1
        /\ IF repository.kind = "InMemory"
           THEN /\ task.out = [tag |-> "Right", right |-> task.either.right]
                /\ findById(trainings, task.either.right.id) = right(task.either.right)
           ELSE /\ task.out = [tag |-> "Left", left |-> repository.error]
                /\ trainings = task.before

C13_Witness ==
    /\ Ran
    /\ Created.success
    /\ repository = RejectingRepository(validationError(MsgSaveRejected))
    /\ task.out = [tag |-> "Left",
                   left |-> [type |-> "ValidationError", message |-> MsgSaveRejected]]
    /\ task.saves = 1

(***************************************************************************)
(* C14, as stated: for every command handled, the pipeline issues exactly   *)
(* one storage call (the save), strictly after validation and construction  *)
(* have finished, with no retry and no second storage call.                *)
(***************************************************************************)
C14_OneSavePerCommand ==
    /\ (task # NoTask /\ task.runs = 0) => task.calls = 0
    /\ Ran => task.calls = 1

(***************************************************************************)
(* C14, amended: for every command whose validation succeeds, each run of   *)
(* the deferred computation the handler returns issues exactly one storage  *)
(* call (the save of the constructed entity), after validation and          *)
(* construction have finished at the call of the handler, with no retry and *)
(* no second storage call in that run; for a command whose validation       *)
(* fails no storage call is issued.                                        *)
(***************************************************************************)
C14_OneSavePerRun ==
    /\ (task # NoTask /\ task.runs = 0) =>
        /\ task.calls = 0
        /\ trainings = task.before
    /\ (Ran /\ Created.success) =>
        /\ task.saves = 1
        /\ task.calls = task.runs
        /\ repository.kind = "InMemory" =>
            trainings = MapSet(task.before, task.either.right.id, task.either.right)
    /\ (Ran /\ ~Created.success) =>
        /\ task.saves = 0
        /\ task.calls = 0

C14_Witness ==
    /\ RanOnce
    /\ Created.success
    /\ repository.kind = "Rejecting"
    /\ task.out.tag = "Left"
    /\ task.saves = 1
    /\ task.calls = 1

(***************************************************************************)
(* Helpers of the lifecycle claims                                         *)
(***************************************************************************)
ValidationMessages ==
    {MsgTitleRequired, MsgTitleTooLong, MsgDescriptionRequired, MsgDescriptionTooLong,
     MsgLocationRequired, MsgLocationTooLong, MsgCapacityTooLow, MsgCapacityTooHigh,
     MsgPastDate, MsgInvalidTraining, MsgInvalidUuid, MsgInvalidDate, MsgNonNegative,
     MsgInvalidDiscriminator, MsgRequired}
Held == entity # NoEntity

C16_CompleteOnlyFromPublished ==
    /\ Did("complete") =>
        /\ call.out.success <=> call.before.status.type = "PUBLISHED"
        /\ call.out.success =>
            call.out.value.status = [type |-> "COMPLETED", completedAt |-> Date(call.at)]
    /\ (Held /\ entity.value.status.type = "COMPLETED") =>
        entity.path = <<"DRAFT", "PUBLISHED", "COMPLETED">>

C18_CancelledReasonRequired ==
    /\ (Did("cancel") /\ StrLength(call.arg) < ReasonMin) => ~call.out.success
    /\ (Held /\ entity.value.status.type = "CANCELLED") =>
        StrLength(entity.value.status.reason) >= ReasonMin
    /\ (Did("validate") /\ call.out.success /\ call.arg.status.type = "CANCELLED") =>
        /\ call.arg.status.reason # Undefined
        /\ StrLength(call.arg.status.reason) >= 1

(***************************************************************************)
(* Helpers of the message claims: the field rules a field set violates at   *)
(* now, and the message of each rule                                       *)
(***************************************************************************)
ViolatedRules(d, now) ==
    (IF TitleOk(d) THEN {} ELSE {"title"})
        \cup (IF DescriptionOk(d) THEN {} ELSE {"description"})
        \cup (IF DateTimeOk(d, now) THEN {} ELSE {"dateTime"})
        \cup (IF LocationOk(d) THEN {} ELSE {"location"})
        \cup (IF CapacityOk(d) THEN {} ELSE {"capacity"})

TitleMessage(d) == IF StrLength(d.title) = 0 THEN MsgTitleRequired ELSE MsgTitleTooLong
DescriptionMessage(d) ==
    IF StrLength(d.description) = 0 THEN MsgDescriptionRequired ELSE MsgDescriptionTooLong
LocationMessage(d) ==
    IF StrLength(d.location) = 0 THEN MsgLocationRequired ELSE MsgLocationTooLong
CapacityMessage(d) == IF d.capacity < 1 THEN MsgCapacityTooLow ELSE MsgCapacityTooHigh
DateTimeMessage(d) == IF d.dateTime = InvalidDate THEN MsgInvalidDate ELSE MsgPastDate

\* The message of the first violated rule in the order title, description,
\* dateTime, location, capacity
FirstInClaimedOrder(d, now) ==
    IF ~TitleOk(d) THEN TitleMessage(d)
    ELSE IF ~DescriptionOk(d) THEN DescriptionMessage(d)
    ELSE IF ~DateTimeOk(d, now) THEN DateTimeMessage(d)
    ELSE IF ~LocationOk(d) THEN LocationMessage(d)
    ELSE CapacityMessage(d)

\* The same order with the past-date rule left out: a dateTime counts only
\* when it is not a valid Date
FirstWithoutPastDate(d) ==
    IF ~TitleOk(d) THEN TitleMessage(d)
    ELSE IF ~DescriptionOk(d) THEN DescriptionMessage(d)
    ELSE IF d.dateTime = InvalidDate THEN MsgInvalidDate
    ELSE IF ~LocationOk(d) THEN LocationMessage(d)
    ELSE CapacityMessage(d)

(***************************************************************************)
(* C19, as stated: when a field set violates several rules at once,         *)
(* createTraining reports exactly one failure message: that of the first    *)
(* violated rule in the fixed field order title, description, dateTime,     *)
(* location, capacity; the messages of later violated fields are never      *)
(* reported.                                                               *)
(***************************************************************************)
C19_FirstViolatedRuleInOrder ==
    (Called /\ data.dateTime # InvalidDate
        /\ Cardinality(ViolatedRules(data, clock)) >= 2) =>
            /\ ~result.success
            /\ result.error = FirstInClaimedOrder(data, clock)

(***************************************************************************)
(* C19, amended: when a field set violates several rules at once,           *)
(* createTraining reports exactly one failure message: either the past-date *)
(* message, and that only when dateTime is before or equal to now, or the   *)
(* message of the first violated rule in the fixed field order title,       *)
(* description, location, capacity (a dateTime that is not a valid Date     *)
(* counting between description and location); the messages of later        *)
(* violated fields are never reported.                                     *)
(***************************************************************************)
C19_FirstViolatedOrPastDate ==
    (Called /\ Cardinality(ViolatedRules(data, clock)) >= 2) =>
        /\ ~result.success
        /\ IF DateLe(data.dateTime, Date(clock))
           THEN result.error \in {MsgPastDate, FirstWithoutPastDate(data)}
           ELSE result.error = FirstWithoutPastDate(data)

C19_Witness ==
    /\ Called
    /\ ViolatedRules(data, clock) = {"description", "location", "capacity"}
    /\ StrLength(data.description) = 1001
    /\ StrLength(data.location) = 0
    /\ data.capacity = 1001
    /\ ~result.success
    /\ result.error = MsgDescriptionTooLong

(***************************************************************************)
(* C20: when exactly one field rule is violated, the failure message of     *)
(* createTraining identifies that field and the direction of the violation: *)
(* 'required' versus 'too long' for title, description and location, and    *)
(* 'too low' versus 'too high' for capacity; a violation of one field never *)
(* yields another field's message.                                         *)
(***************************************************************************)
C20_MessageNamesFieldAndDirection ==
    Called =>
        /\ ViolatedRules(data, clock) = {"title"} =>
            /\ ~result.success
            /\ result.error = (IF StrLength(data.title) = 0 THEN MsgTitleRequired
                               ELSE MsgTitleTooLong)
        /\ ViolatedRules(data, clock) = {"description"} =>
            /\ ~result.success
            /\ result.error = (IF StrLength(data.description) = 0 THEN MsgDescriptionRequired
                               ELSE MsgDescriptionTooLong)
        /\ ViolatedRules(data, clock) = {"location"} =>
            /\ ~result.success
            /\ result.error = (IF StrLength(data.location) = 0 THEN MsgLocationRequired
                               ELSE MsgLocationTooLong)
        /\ ViolatedRules(data, clock) = {"capacity"} =>
            /\ ~result.success
            /\ result.error = (IF data.capacity < 1 THEN MsgCapacityTooLow
                               ELSE MsgCapacityTooHigh)
        /\ (ViolatedRules(data, clock) = {"dateTime"} /\ ~result.success) =>
            result.error \in {MsgPastDate, MsgInvalidDate}

C20_Witness ==
    /\ Called
    /\ ViolatedRules(data, clock) = {"capacity"}
    /\ data.capacity = 0
    /\ ~result.success
    /\ result.error = MsgCapacityTooLow

(***************************************************************************)
(* Helpers of the claims about the stored entities                         *)
(***************************************************************************)
Stored == {trainings[i].value : i \in 1..Len(trainings)}
Constructed == task # NoTask /\ task.either.tag = "Right"

(***************************************************************************)
(* C21: every entity produced by createTraining has createdAt = updatedAt   *)
(* = status.createdAt, all equal to the single now read at the start of the *)
(* call, so updatedAt >= createdAt holds for every entity that exists in    *)
(* any reachable state.                                                    *)
(***************************************************************************)
C21_SingleNow ==
    /\ Constructed =>
        /\ task.either.right.createdAt = Date(task.at)
        /\ task.either.right.updatedAt = Date(task.at)
        /\ task.either.right.status = [type |-> "DRAFT", createdAt |-> Date(task.at)]
        /\ DateLe(task.either.right.createdAt, task.either.right.updatedAt)
    /\ \A e \in Stored :
        /\ e.createdAt = e.updatedAt
        /\ e.status.createdAt = e.createdAt
        /\ DateLe(e.createdAt, e.updatedAt)
        /\ DateLe(e.createdAt, Date(clock))

C21_Witness ==
    /\ Constructed
    /\ Ran
    /\ task.at = 1
    /\ task.either.right.updatedAt = Date(1)
    /\ size(trainings) = 2
    /\ trainings[1].value.createdAt = Date(0)
    /\ trainings[2].value.createdAt = Date(1)

(***************************************************************************)
(* C22: after any sequence of commands handled by createTrainingHandler,    *)
(* every entity in the repository has capacity in [1,1000] and              *)
(* registeredCount <= capacity.                                            *)
(***************************************************************************)
C22_StoredCapacityInRange ==
    \A e \in Stored :
        /\ e.capacity >= 1
        /\ e.capacity <= 1000
        /\ e.registeredCount <= e.capacity

C22_Witness ==
    /\ Ran
    /\ task.command.capacity = 1001
    /\ task.out.tag = "Left"
    /\ size(trainings) = 1
    /\ \E e \in Stored : e.capacity = 1000 /\ e.registeredCount = 0

(***************************************************************************)
(* C23: after any sequence of valid and invalid commands handled by         *)
(* createTrainingHandler, every entity in the repository has a title of     *)
(* 1-100 characters, a description of 1-1000 characters and a location of   *)
(* 1-100 characters; no entity that violates a field rule is ever stored.   *)
(* The dateTime rule is taken at the now of the entity's construction,      *)
(* which is its createdAt.                                                 *)
(***************************************************************************)
C23_NoRuleViolationStored ==
    \A e \in Stored :
        /\ StrLength(e.title) >= 1 /\ StrLength(e.title) <= 100
        /\ StrLength(e.description) >= 1 /\ StrLength(e.description) <= 1000
        /\ StrLength(e.location) >= 1 /\ StrLength(e.location) <= 100
        /\ ViolatedRules(e, e.createdAt.time) = {}

(***************************************************************************)
(* C24: after any sequence of commands handled by createTrainingHandler,    *)
(* every entity returned by findAll has status DRAFT and registeredCount 0: *)
(* an entity enters the store only in Draft with no registrations.          *)
(***************************************************************************)
C24_FindAllDraftUnregistered ==
    /\ findAll(trainings).tag = "Right"
    /\ \A k \in 1..Len(findAll(trainings).right) :
        /\ findAll(trainings).right[k].status.type = "DRAFT"
        /\ findAll(trainings).right[k].registeredCount = 0
    /\ (Ran /\ task.saves = 1) =>
        /\ task.out.right.status.type = "DRAFT"
        /\ task.out.right.registeredCount = 0

C24_Witness ==
    /\ Len(findAll(trainings).right) = 2
    /\ findAll(trainings).right[1].status.type = "DRAFT"
    /\ findAll(trainings).right[2].status = [type |-> "DRAFT", createdAt |-> Date(1)]
    /\ findAll(trainings).right[2].registeredCount = 0
    /\ Ran
    /\ task.saves = 1

(***************************************************************************)
(* C25: calling createTrainingHandler(repository)(command) validates and    *)
(* constructs the entity immediately, but leaves the repository unchanged   *)
(* until the returned deferred computation is run; the save happens only    *)
(* when, and each time, the deferred computation is run.                    *)
(***************************************************************************)
C25_SaveDeferredToRun ==
    task # NoTask =>
        /\ Created.success <=> task.either.tag = "Right"
        /\ \A rnds \in HandlerRandomBytes :
            Created.success <=> createTraining(task.command, Date(task.at), rnds).success
        /\ Constructed =>
            /\ SameFields(task.either.right, task.command)
            /\ task.either.right.createdAt = Date(task.at)
        /\ task.runs = 0 =>
            /\ trainings = task.first
            /\ task.calls = 0
            /\ task.out = NoResult
        /\ (Ran /\ Created.success) =>
            /\ task.saves = 1
            /\ task.calls = task.runs
            /\ findById(trainings, task.either.right.id) = right(task.either.right)
            /\ findById(trainings, task.either.right.id).right.createdAt = Date(task.at)

C25_Witness ==
    /\ Constructed
    /\ task.runs = 2
    /\ task.calls = 2
    /\ task.saves = 1
    /\ task.at = 0
    /\ clock = 1
    /\ ~MapHas(task.first, task.either.right.id)
    /\ MapGet(trainings, task.either.right.id).createdAt = Date(0)

C28_FailsOnlyOnRejection ==
    /\ repository = InMemoryTrainingRepository
    /\ findAll(trainings).tag = "Right"
    /\ \A i \in 1..Len(trainings) : findById(trainings, trainings[i].key).tag = "Right"
    /\ Constructed =>
        /\ findById(trainings, task.either.right.id).tag = "Right"
        /\ save(trainings, task.either.right).either.tag = "Right"
    /\ Ran =>
        /\ task.out.tag = "Left" <=> ~Created.success
        /\ \A rnds \in HandlerRandomBytes :
            task.out.tag = "Left" <=>
                ~createTraining(task.command, Date(task.at), rnds).success
        /\ task.out.tag = "Left" =>
            /\ task.out.left.type = "ValidationError"
            /\ task.out.left.type # "DomainError"

C28_Witness ==
    /\ Ran
    /\ task.out.tag = "Left"
    /\ task.out.left.type = "ValidationError"
    /\ ~Created.success
    /\ size(trainings) = 1
    /\ Len(handled) = 1
    /\ findById(trainings, handled[1].id).right.id = handled[1].id

====
